---- MODULE Spec2Model ----
(***************************************************************************)
(* ReactiveEventSource (src/src/index.ts): an RxJS wrapper around the      *)
(* browser EventSource.  Every RxJS callback chain runs synchronously to   *)
(* completion, so each action below is one callback of the program: a      *)
(* public method call, a DOM event dispatched by an EventSource, or a      *)
(* timer expiry.                                                           *)
(***************************************************************************)
EXTENDS Integers, Sequences, FiniteSets, Bags, TLC

\* ---- bounds of the model ----
MaxRetriesOpt == 2      \* options.maxRetries is drawn from 0..MaxRetriesOpt
InitialDelayOpt == 1    \* the value given to options.initialDelay (ms)
MaxDelayOpt == 3        \* the value given to options.maxDelay (ms)
MaxSubs == 2            \* simultaneous consumer subscriptions
MaxMsgs == 2            \* events delivered to forwarders over a run
MaxLog == 4             \* recorded prefix of the readyState$ emissions
RandSteps == 2          \* Math.random() takes the values k / RandSteps
MaxAttemptArg == 6      \* largest attempt given to new EventSourceError

\* ---- program constants ----
CONNECTING == 0
OPEN == 1
CLOSED == 2
initialDelay == InitialDelayOpt
maxDelay == MaxDelayOpt

Types == {"message", "error"}   \* event types passed to on()
NoErr == [msg |-> "none", attempt |-> -1]
NoChan == [status |-> "none", buf |-> 0]
NoFwd == [state |-> "none", listen |-> 0, beforeSup |-> FALSE]
NoObj == [message |-> "", attempt |-> -1, name |-> ""]

VARIABLES
  maxRetries, supported,  \* options.maxRetries and window.EventSource
  handles,            \* the EventSource objects constructed so far
  lastEventSource,    \* this.lastEventSource (0 = undefined)
  rsValue,            \* readyStateSubject$._value (the readyState getter)
  rsStopped,          \* readyStateSubject$ has completed
  rsLast,             \* last value delivered on readyState$
  rsLog,              \* prefix of the values delivered on readyState$
  pipe,               \* state of the pipeline behind eventSource$
  soFar,              \* retry operator: errors counted so far
  attempts,           \* subscriptions made to merge(open$, error$)
  retryAfter,         \* delay of the pending backoff timer
  pipeHandle,         \* EventSource captured by fromEvent in the factory
  shareBuf,           \* ReplaySubject(1) of share: last handle emitted
  connects,           \* executions of the defer factory
  termErr,            \* error that terminated the pipeline
  destroyStopped,     \* destroy$ has completed
  eventSubjects,      \* Map type -> ReplaySubject(1) channel
  fwd,                \* forwarder subscription made for each entry
  subscriptions,      \* Map type -> forwarder subscription (has entry)
  eventListenerCleanup, \* Map type -> cleanup closure (has entry)
  retired,            \* channels dropped from eventSubjects by close()
  subs,               \* bag of consumer subscriptions to channel observables
  sent,               \* events delivered to forwarders so far
  errArgs,            \* arguments of a call new EventSourceError(...)
  errObj              \* the object that call constructed

vars == <<maxRetries, supported, handles, lastEventSource,
          rsValue, rsStopped, rsLast, rsLog, pipe, soFar, attempts,
          retryAfter, pipeHandle, shareBuf, connects, termErr,
          destroyStopped, eventSubjects, fwd,
          subscriptions, eventListenerCleanup, retired, subs, sent,
          errArgs, errObj>>

\* The mutable program state as one record, threaded through the steps of
\* a synchronous callback chain.
Cur ==
  [handles |-> handles, lastEventSource |-> lastEventSource,
   rsValue |-> rsValue, rsStopped |-> rsStopped, rsLast |-> rsLast,
   rsLog |-> rsLog, pipe |-> pipe, soFar |-> soFar, attempts |-> attempts,
   retryAfter |-> retryAfter, pipeHandle |-> pipeHandle,
   shareBuf |-> shareBuf, connects |-> connects, termErr |-> termErr,
   destroyStopped |-> destroyStopped,
   eventSubjects |-> eventSubjects, fwd |-> fwd,
   subscriptions |-> subscriptions,
   eventListenerCleanup |-> eventListenerCleanup, retired |-> retired,
   subs |-> subs, sent |-> sent]

Commit(s) ==
  /\ handles' = s.handles
  /\ lastEventSource' = s.lastEventSource
  /\ rsValue' = s.rsValue
  /\ rsStopped' = s.rsStopped
  /\ rsLast' = s.rsLast
  /\ rsLog' = s.rsLog
  /\ pipe' = s.pipe
  /\ soFar' = s.soFar
  /\ attempts' = s.attempts
  /\ retryAfter' = s.retryAfter
  /\ pipeHandle' = s.pipeHandle
  /\ shareBuf' = s.shareBuf
  /\ connects' = s.connects
  /\ termErr' = s.termErr
  /\ destroyStopped' = s.destroyStopped
  /\ eventSubjects' = s.eventSubjects
  /\ fwd' = s.fwd
  /\ subscriptions' = s.subscriptions
  /\ eventListenerCleanup' = s.eventListenerCleanup
  /\ retired' = s.retired
  /\ subs' = s.subs
  /\ sent' = s.sent
  /\ UNCHANGED <<maxRetries, supported, errArgs, errObj>>

Min(a, b) == IF a < b THEN a ELSE b

RECURSIVE Pow2(_)
Pow2(n) == IF n <= 0 THEN 1 ELSE 2 * Pow2(n - 1)

\* ---- readyStateSubject$ (BehaviorSubject) ----
\* BehaviorSubject.next assigns _value before Subject.next tests isStopped.
RsNext(s, v) ==
  [s EXCEPT !.rsValue = v,
            !.rsLast = IF s.rsStopped THEN @ ELSE v,
            !.rsLog = IF ~s.rsStopped /\ Len(@) < MaxLog
                      THEN Append(@, v) ELSE @]

\* What readyState$ delivers to an observer at the moment it subscribes: a
\* BehaviorSubject hands over its value unless it has stopped, and then
\* only the completion.
RsOnSubscribe(s) == IF s.rsStopped THEN <<>> ELSE <<s.rsValue>>

RsCompleteForgotten(s) == s

\* readyStateSubject$.complete()
RsComplete(s) == [s EXCEPT !.rsStopped = TRUE]

\* ---- channels: ReplaySubject(1) and their consumers ----
RECURSIVE SumCopies(_, _)
SumCopies(B, S) ==
  IF S = {} THEN 0
  ELSE LET r == CHOOSE x \in S : TRUE
       IN  B[r] + SumCopies(B, S \ {r})

\* What reaches a consumer subscription when the subject of type t makes
\* the call `how` (next with event m, error, complete): only an observer
\* the subject still holds is notified.
SubNotify(r, t, how, m) ==
  IF r.type = t /\ r.state = "active"
  THEN IF how = "next" THEN [r EXCEPT !.log = Append(@, m)]
       ELSE [r EXCEPT !.state = how]
  ELSE r

\* The bag of consumer subscriptions after the subject of type t has
\* notified its observers.
SubsNotify(B, t, how, m) ==
  LET D == BagToSet(B)
  IN  [x \in {SubNotify(r, t, how, m) : r \in D} |->
         SumCopies(B, {r \in D : SubNotify(r, t, how, m) = x})]

ChanNextUnbuffered(s, t, m) ==
  IF s.eventSubjects[t].status # "live" THEN s
  ELSE [s EXCEPT !.subs = SubsNotify(s.subs, t, "next", m)]

\* ReplaySubject.next on the channel of type t: buffer the event and hand
\* it to every observer.
ChanNext(s, t, m) ==
  IF s.eventSubjects[t].status # "live" THEN s
  ELSE [s EXCEPT !.eventSubjects[t].buf = m,
                 !.subs = SubsNotify(s.subs, t, "next", m)]

\* Subject.error / Subject.complete: no effect once the subject is stopped.
ChanStop(s, t, how) ==
  IF s.eventSubjects[t].status # "live" THEN s
  ELSE [s EXCEPT !.eventSubjects[t].status = how,
                 !.subs = SubsNotify(s.subs, t, how, 0)]

ChanError(s, t) == ChanStop(s, t, "errored")

ChanCompleteForgotten(s, t) == s

ChanComplete(s, t) == ChanStop(s, t, "completed")

\* ---- the EventSource object ----
EsClose(s, h) ==
  IF h = 0 THEN s ELSE [s EXCEPT !.handles[h].rs = CLOSED]

\* ---- forwarders (setupEventListener) ----
FwdActive(s, t) == s.fwd[t].state = "active"

\* switchMap project: a handle arrives from eventSource$.
FwdHandle(s, t, h) ==
  LET s1 == RsNext(s, s.handles[h].rs)
  IN  [s1 EXCEPT !.fwd[t].listen = h, !.fwd[t].beforeSup = FALSE]

FwdErrorSwallowed(s, t) ==
  [s EXCEPT !.fwd[t].state = "errored", !.fwd[t].listen = 0]

\* subscribe({error}): eventSource$ failed.
FwdError(s, t) ==
  ChanError([s EXCEPT !.fwd[t].state = "errored", !.fwd[t].listen = 0], t)

\* subscribe({complete}): eventSource$ completed; switchMap completes only
\* when no inner fromEvent subscription is active.
FwdComplete(s, t) ==
  IF s.fwd[t].listen # 0 THEN s
  ELSE ChanComplete([s EXCEPT !.fwd[t].state = "completed"], t)

FwdUnsubscribe(s, t) ==
  IF FwdActive(s, t)
  THEN [s EXCEPT !.fwd[t].state = "unsub", !.fwd[t].listen = 0]
  ELSE s

FwdInnerErrorUncaught(s, t) == FwdError(s, t)

\* catchError on fromEvent: the raw listener of type t failed.  The error
\* is logged and given to the channel, and EMPTY ends the inner
\* subscription alone; switchMap stays subscribed to eventSource$.
\* (An EventSource never makes fromEvent fail, so no action dispatches
\* this; the handler is examined in every state in which it could run.)
FwdInnerError(s, t) == ChanError([s EXCEPT !.fwd[t].listen = 0], t)

\* next: (event) => subject.next(event), for the raw listener of type t.
FwdOnEvent(s, t) ==
  LET m == s.sent + 1
  IN  ChanNext([s EXCEPT !.sent = m], t, m)

\* ---- share({connector: () => new ReplaySubject(1), no resets}) ----
\* The subject of share hands each notification to every subscribed
\* forwarder.
RECURSIVE ShareNextTo(_, _, _)
ShareNextTo(s, ts, h) ==
  IF ts = {} THEN s
  ELSE LET t == CHOOSE x \in ts : TRUE
       IN  ShareNextTo(IF FwdActive(s, t) THEN FwdHandle(s, t, h) ELSE s, ts \ {t}, h)

ShareNext(s, h) == ShareNextTo([s EXCEPT !.shareBuf = h], Types, h)

RECURSIVE ShareErrorTo(_, _)
ShareErrorTo(s, ts) ==
  IF ts = {} THEN s
  ELSE LET t == CHOOSE x \in ts : TRUE
       IN  ShareErrorTo(IF FwdActive(s, t) THEN FwdError(s, t) ELSE s, ts \ {t})

ShareError(s) == ShareErrorTo(s, Types)

RECURSIVE ShareCompleteTo(_, _)
ShareCompleteTo(s, ts) ==
  IF ts = {} THEN s
  ELSE LET t == CHOOSE x \in ts : TRUE
       IN  ShareCompleteTo(IF FwdActive(s, t) THEN FwdComplete(s, t) ELSE s, ts \ {t})

ShareComplete(s) == ShareCompleteTo(s, Types)

\* ---- the pipeline of createEventSource ----
PipeActive(s) == s.pipe \in {"connecting", "open", "backoff"}

\* merge(open$, error$) is subscribed: 'open' and 'error' listeners attached.
SupListening(s) == s.pipe \in {"connecting", "open"}

\* finalize(): close the handle and publish CLOSED.
Finalize(s) == RsNext(EsClose(s, s.lastEventSource), CLOSED)

\* An error leaves retry: share's subject errors, then finalize runs.
Terminal(s, err) ==
  Finalize(ShareError([s EXCEPT !.pipe = "errored", !.termErr = err]))

RetriesExhaustedLate(attempt) == attempt > maxRetries

\* if (attempt >= this.options.maxRetries)
RetriesExhausted(attempt) == attempt >= maxRetries

BaseDelayUncapped(attempt) == initialDelay * Pow2(attempt)

\* Math.min(initialDelay * Math.pow(2, attempt), maxDelay)
BaseDelay(attempt) == Min(initialDelay * Pow2(attempt), maxDelay)

\* Math.random() * baseDelay, with Math.random() = rnd / RandSteps
Jitter(rnd, baseDelay) == (rnd * baseDelay) \div RandSteps

\* retry({count: maxRetries, delay}) receives an error from its source.
\* With count <= 0 the operator is the identity.
RetryOnError(s, err, rnd) ==
  IF maxRetries <= 0 THEN Terminal(s, err)
  ELSE LET n  == s.soFar + 1
           s1 == [s EXCEPT !.soFar = n]
       IN  IF s.soFar < maxRetries
           THEN IF RetriesExhausted(n)
                THEN Terminal(RsNext(s1, CLOSED), [msg |-> err.msg, attempt |-> -1])
                ELSE [RsNext(s1, CONNECTING) EXCEPT
                        !.pipe = "backoff",
                        !.retryAfter = Jitter(rnd, BaseDelay(n))]
           ELSE Terminal(s1, err)

ResubscribeFreshHandle(s) ==
  LET s1 == EsClose(s, s.lastEventSource)
      h  == Len(s1.handles) + 1
  IN  [s1 EXCEPT !.pipe = "connecting",
                 !.attempts = @ + 1,
                 !.retryAfter = 0,
                 !.handles = Append(@, [rs |-> CONNECTING]),
                 !.lastEventSource = h,
                 !.pipeHandle = h]

ResubscribeNever(s) == s

\* retry resubscribes to merge(open$, error$).pipe(raceWith(timeout$)): the
\* listeners go back on the EventSource captured when the factory ran.
Resubscribe(s) ==
  [s EXCEPT !.pipe = "connecting",
            !.attempts = @ + 1,
            !.retryAfter = 0,
            !.fwd = [t \in Types |->
                       IF s.fwd[t].listen = s.pipeHandle
                       THEN [s.fwd[t] EXCEPT !.beforeSup = TRUE]
                       ELSE s.fwd[t]]]

SupOnOpenKeepsTimer(s) == ShareNext(RsNext(s, OPEN), s.lastEventSource)

SupOnOpenResetsCount(s) ==
  ShareNext([RsNext(s, OPEN) EXCEPT !.pipe = "open", !.soFar = 0], s.lastEventSource)

\* open$: the 'open' listener of the supervisor.
SupOnOpen(s) ==
  ShareNext([RsNext(s, OPEN) EXCEPT !.pipe = "open"], s.lastEventSource)

SupOnErrorSilent(s, rnd) ==
  IF s.handles[s.lastEventSource].rs = CONNECTING
  THEN RetryOnError(s, [msg |-> "Initial connection failed", attempt |-> -1], rnd)
  ELSE s

\* error$: the 'error' listener of the supervisor.
SupOnError(s, rnd) ==
  LET r  == s.handles[s.lastEventSource].rs
      s1 == RsNext(s, r)
  IN  IF r = CONNECTING
      THEN RetryOnError(s1, [msg |-> "Initial connection failed", attempt |-> -1], rnd)
      ELSE s1

SupOnTimeoutIgnored(s, rnd) == s

\* timeout$: timer(connectionTimeout) expired before the race was decided.
SupOnTimeout(s, rnd) ==
  RetryOnError(RsNext(s, CLOSED), [msg |-> "Connection timeout", attempt |-> -1], rnd)

FactoryUnchecked(s) ==
  RsNext([EsClose(s, s.lastEventSource) EXCEPT
            !.connects = @ + 1,
            !.handles = Append(@, [rs |-> CONNECTING]),
            !.lastEventSource = Len(s.handles) + 1,
            !.pipeHandle = Len(s.handles) + 1,
            !.pipe = "connecting",
            !.attempts = @ + 1], CONNECTING)

FactorySilent(s) ==
  IF ~supported
  THEN ShareError([s EXCEPT !.connects = @ + 1, !.pipe = "errored"])
  ELSE [s EXCEPT !.connects = @ + 1,
                 !.handles = Append(@, [rs |-> CONNECTING]),
                 !.lastEventSource = Len(s.handles) + 1,
                 !.pipeHandle = Len(s.handles) + 1,
                 !.pipe = "connecting",
                 !.attempts = @ + 1]

\* The defer factory, run when share connects.
Factory(s) ==
  IF ~supported
  THEN ShareError([s EXCEPT !.connects = @ + 1, !.pipe = "errored",
                            !.termErr = [msg |-> "EventSource is not supported in this environment",
                                         attempt |-> -1]])
  ELSE LET s1 == EsClose(s, s.lastEventSource)
           h  == Len(s1.handles) + 1
           s2 == [s1 EXCEPT !.connects = @ + 1,
                            !.handles = Append(@, [rs |-> CONNECTING]),
                            !.lastEventSource = h,
                            !.pipeHandle = h,
                            !.pipe = "connecting",
                            !.attempts = @ + 1]
       IN  RsNext(s2, CONNECTING)

ShareSubscribeUnshared(s, t) == Factory(s)

ShareSubscribeOwnHandle(s, t) ==
  [Factory(s) EXCEPT !.handles = Append(s.handles, [rs |-> CONNECTING])]

\* A forwarder subscribes to eventSource$ (share): the ReplaySubject replays
\* its buffer and its terminal state; the first subscriber connects.
ShareSubscribe(s, t) ==
  IF s.connects = 0 THEN Factory(s)
  ELSE LET s1 == IF s.shareBuf # 0 THEN FwdHandle(s, t, s.shareBuf) ELSE s
       IN  CASE s.pipe = "errored"   -> FwdError(s1, t)
             [] s.pipe = "completed" -> FwdComplete(s1, t)
             [] OTHER                -> s1

\* ---- DOM event dispatch on an EventSource ----
Listens(s, t, h, et) == FwdActive(s, t) /\ s.fwd[t].listen = h /\ t = et

\* The raw listener of the forwarder of type et, when it is in the snapshot
\* of the dispatch, was registered on the side `first` of the supervisor's
\* listeners and is still registered.
DispatchFwd(s, snap, h, et, first) ==
  IF et \in snap /\ Listens(s, et, h, et) /\ s.fwd[et].beforeSup = first
  THEN FwdOnEvent(s, et) ELSE s

Dispatch(s, h, et, rnd) ==
  LET snap == {t \in Types : Listens(s, t, h, et)}
      s1 == DispatchFwd(s, snap, h, et, TRUE)
      supRuns == SupListening(s1) /\ s1.pipeHandle = h /\ et \in {"open", "error"}
      s2 == IF ~supRuns THEN s1
            ELSE IF et = "open" THEN SupOnOpen(s1) ELSE SupOnError(s1, rnd)
      \* a handle emission re-registers every forwarder listener, and a
      \* listener added during the dispatch is not in the snapshot
      rest == IF supRuns /\ et = "open" THEN {} ELSE snap
  IN  DispatchFwd(s2, rest, h, et, FALSE)

HasFwdListener(h, et) == \E t \in Types : Listens(Cur, t, h, et)

\* ---- close() ----
\* this.subscriptions.forEach((subscription) => subscription.unsubscribe())
RECURSIVE UnsubscribeAll(_, _)
UnsubscribeAll(s, ts) ==
  IF ts = {} THEN s
  ELSE LET t == CHOOSE x \in ts : TRUE
       IN  UnsubscribeAll(IF s.subscriptions[t] THEN FwdUnsubscribe(s, t) ELSE s,
                          ts \ {t})

\* The closure stored in eventListenerCleanup for type t.
Cleanup(s, t) ==
  LET s1 == IF s.subscriptions[t]
            THEN [FwdUnsubscribe(s, t) EXCEPT !.subscriptions[t] = FALSE]
            ELSE s
  IN  ChanComplete(s1, t)

\* this.eventListenerCleanup.forEach((cleanup) => cleanup())
RECURSIVE CleanupAll(_, _)
CleanupAll(s, ts) ==
  IF ts = {} THEN s
  ELSE LET t == CHOOSE x \in ts : TRUE
       IN  CleanupAll(IF s.eventListenerCleanup[t] THEN Cleanup(s, t) ELSE s,
                      ts \ {t})

\* this.eventSubjects.forEach: complete the subject unless it is closed.
RECURSIVE CompleteAll(_, _)
CompleteAll(s, ts) ==
  IF ts = {} THEN s
  ELSE LET t == CHOOSE x \in ts : TRUE
       IN  CompleteAll(IF s.eventSubjects[t].status # "none"
                       THEN ChanComplete(s, t) ELSE s,
                       ts \ {t})

NoEntries == [t \in Types |-> FALSE]

\* this.eventSubjects.clear(): the channels stay reachable only through the
\* observables that consumers hold.
ClearSubjects(s) ==
  [s EXCEPT !.retired = @ \cup {[type |-> t, status |-> s.eventSubjects[t].status,
                                  buf |-> s.eventSubjects[t].buf] :
                                 t \in {x \in Types : s.eventSubjects[x].status # "none"}},
            !.eventSubjects = [t \in Types |-> NoChan],
            !.fwd = [t \in Types |-> NoFwd]]

\* destroy$.next(); destroy$.complete(): takeUntil completes the pipeline.
Destroy(s) ==
  IF s.destroyStopped THEN s
  ELSE LET s1 == IF PipeActive(s)
                 THEN Finalize(ShareComplete([s EXCEPT !.pipe = "completed",
                                                       !.retryAfter = 0]))
                 ELSE s
       IN  [s1 EXCEPT !.destroyStopped = TRUE]

\* close() up to this.eventListenerCleanup.clear(): the forwarders are
\* unsubscribed and the cleanup closures have run.
CloseCleanups(s) ==
  LET s1 == [UnsubscribeAll(s, Types) EXCEPT !.subscriptions = NoEntries]
  IN  [CleanupAll(s1, Types) EXCEPT !.eventListenerCleanup = NoEntries]

CloseBody(s) ==
  LET s2 == CloseCleanups(s)
      s3 == EsClose(s2, s2.lastEventSource)
      s4 == RsNext(s3, CLOSED)
      s5 == ClearSubjects(CompleteAll(s4, Types))
      s6 == Destroy(s5)
  IN  RsComplete(s6)

\* ---- on(eventType) ----
OnBody(s, t) ==
  IF s.eventSubjects[t].status # "none" THEN s
  ELSE LET s1 == [s EXCEPT !.eventSubjects[t] = [status |-> "live", buf |-> 0],
                           !.fwd[t] = [state |-> "active", listen |-> 0,
                                       beforeSup |-> FALSE]]
           s2 == ShareSubscribe(s1, t)
       IN  [s2 EXCEPT !.subscriptions[t] = TRUE, !.eventListenerCleanup[t] = TRUE]

\* ---- consumers of the observables returned by on() ----
\* ReplaySubject._subscribe: replay the buffer, then the terminal state.
NewSub(t, ch) ==
  [type |-> t,
   state |-> IF ch.status = "live" THEN "active" ELSE ch.status,
   log |-> IF ch.buf # 0 THEN <<ch.buf>> ELSE <<>>]

SubscribeBody(s, t, ch) == [s EXCEPT !.subs = @ (+) SetToBag({NewSub(t, ch)})]

UnsubscribeBodyRefCounted(s, r) ==
  LET s1 == [s EXCEPT !.subs = @ (-) SetToBag({r})]
  IN  IF \E q \in BagToSet(s1.subs) : q.type = r.type /\ q.state = "active"
      THEN s1 ELSE FwdUnsubscribe(s1, r.type)

\* Subscription.unsubscribe() of a consumer: the subject drops the observer.
UnsubscribeBody(s, r) == [s EXCEPT !.subs = @ (-) SetToBag({r})]

\* ---- actions ----
Init ==
  /\ maxRetries \in 0..MaxRetriesOpt
  /\ supported \in BOOLEAN
  /\ handles = <<>>
  /\ lastEventSource = 0
  /\ rsValue = CLOSED
  /\ rsStopped = FALSE
  /\ rsLast = CLOSED
  /\ rsLog = <<CLOSED>>
  /\ pipe = "idle"
  /\ soFar = 0
  /\ attempts = 0
  /\ retryAfter = 0
  /\ pipeHandle = 0
  /\ shareBuf = 0
  /\ connects = 0
  /\ termErr = NoErr
  /\ destroyStopped = FALSE
  /\ eventSubjects = [t \in Types |-> NoChan]
  /\ fwd = [t \in Types |-> NoFwd]
  /\ subscriptions = NoEntries
  /\ eventListenerCleanup = NoEntries
  /\ retired = {}
  /\ subs = EmptyBag
  /\ sent = 0
  /\ errArgs = <<>>
  /\ errObj = NoObj

\* source.on(t)
On(t) ==
  /\ t \in Types
  /\ Commit(OnBody(Cur, t))

\* source.close()
Close ==
  /\ destroyStopped \in BOOLEAN
  /\ Commit(CloseBody(Cur))

\* a consumer subscribes to the observable on(t) returns now
Subscribe(t) ==
  /\ BagCardinality(subs) < MaxSubs
  /\ eventSubjects[t].status # "none"
  /\ Commit(SubscribeBody(Cur, t, eventSubjects[t]))

\* a consumer subscribes to an observable on() returned before a close()
SubscribeRetired(ch) ==
  /\ BagCardinality(subs) < MaxSubs
  /\ ch \in retired
  /\ Commit(SubscribeBody(Cur, ch.type, ch))

\* a consumer unsubscribes
Unsubscribe(r) ==
  /\ CopiesIn(r, subs) > 0
  /\ Commit(UnsubscribeBody(Cur, r))

\* the EventSource announces the connection
HandleOpen(h) ==
  /\ handles[h].rs = CONNECTING
  /\ HasFwdListener(h, "open") => sent < MaxMsgs
  /\ Commit(Dispatch([Cur EXCEPT !.handles[h].rs = OPEN], h, "open", 0))

\* the EventSource loses or fails to get the connection and will reconnect
HandleReconnect(h, rnd) ==
  /\ handles[h].rs \in {CONNECTING, OPEN}
  /\ HasFwdListener(h, "error") => sent < MaxMsgs
  /\ Commit(Dispatch([Cur EXCEPT !.handles[h].rs = CONNECTING], h, "error", rnd))

\* the EventSource fails the connection for good
HandleFail(h) ==
  /\ handles[h].rs \in {CONNECTING, OPEN}
  /\ HasFwdListener(h, "error") => sent < MaxMsgs
  /\ Commit(Dispatch([Cur EXCEPT !.handles[h].rs = CLOSED], h, "error", 0))

\* the EventSource receives a message event
HandleMessage(h) ==
  /\ handles[h].rs = OPEN
  /\ HasFwdListener(h, "message")
  /\ sent < MaxMsgs
  /\ Commit(Dispatch(Cur, h, "message", 0))

\* timer(connectionTimeout) fires
TimeoutFire(rnd) ==
  /\ pipe = "connecting"
  /\ Commit(SupOnTimeout(Cur, rnd))

\* timer(retryAfter) fires
RetryFire ==
  /\ pipe = "backoff"
  /\ Commit(Resubscribe(Cur))

Next ==
  \/ \E t \in Types : On(t)
  \/ Close
  \/ \E t \in Types : Subscribe(t)
  \/ \E ch \in retired : SubscribeRetired(ch)
  \/ \E r \in BagToSet(subs) : Unsubscribe(r)
  \/ \E h \in DOMAIN handles : HandleOpen(h)
  \/ \E h \in DOMAIN handles, rnd \in 0..(RandSteps - 1) : HandleReconnect(h, rnd)
  \/ \E h \in DOMAIN handles : HandleFail(h)
  \/ \E h \in DOMAIN handles : HandleMessage(h)
  \/ \E rnd \in 0..(RandSteps - 1) : TimeoutFire(rnd)
  \/ RetryFire

Spec == Init /\ [][Next]_vars

\* timer(connectionTimeout) fires unless the race is decided or torn down
\* first.  TimeoutFire is enabled exactly while pipe = "connecting" and
\* every step of it ends that state, so weak fairness of the action,
\* WF_vars(\E rnd \in 0..(RandSteps - 1) : TimeoutFire(rnd)), is this
\* formula.
TimeoutFires == []<>(pipe # "connecting")

\* A timer that has been started and is not cancelled fires: the timeout of
\* the race (timer(connectionTimeout)) and the backoff (timer(retryAfter)).
FairSpec ==
  /\ Spec
  /\ TimeoutFires
  /\ WF_vars(RetryFire)

\* ---- class EventSourceError (src/src/error.ts) ----
\* The calls examined: a message alone, or a message and an attempt.
ErrMessages ==
  {"Test error", "Connection failed", "First attempt failed",
   "Initial connection failed", "Connection timeout"}

AttemptArgs == (-(MaxAttemptArg \div 2))..MaxAttemptArg

ErrCalls ==
  {<<m>> : m \in ErrMessages} \cup {<<m, a>> : m \in ErrMessages, a \in AttemptArgs}

\* attempt > -1 ? ` - Attempt: ${attempt}` : ''
AttemptMessage(attempt) ==
  IF attempt > -1 THEN " - Attempt: " \o ToString(attempt) ELSE ""

\* super(text): the Error constructor stores its argument in message.
ErrorSuper(text) == [message |-> text, name |-> "Error"]

\* new EventSourceError(...args).  `public message` and `public attempt`
\* are parameter properties: each is assigned from its parameter right
\* after super() returns, and then the body assigns name.
EventSourceError(args) ==
  LET message == args[1]
      attempt == IF Len(args) < 2 THEN -1 ELSE args[2]
      e1 == ErrorSuper("EventSource Error: " \o message \o AttemptMessage(attempt))
      e2 == [message |-> message, attempt |-> attempt, name |-> e1.name]
  IN  [e2 EXCEPT !.name = "EventSourceError"]

\* A call is about to be made; the ReactiveEventSource plays no part.
ErrInit ==
  /\ errArgs \in ErrCalls
  /\ errObj = NoObj
  /\ maxRetries = 0 /\ supported = TRUE
  /\ handles = <<>> /\ lastEventSource = 0
  /\ rsValue = CLOSED /\ rsStopped = FALSE /\ rsLast = CLOSED /\ rsLog = <<CLOSED>>
  /\ pipe = "idle" /\ soFar = 0 /\ attempts = 0 /\ retryAfter = 0
  /\ pipeHandle = 0 /\ shareBuf = 0 /\ connects = 0 /\ termErr = NoErr
  /\ destroyStopped = FALSE
  /\ eventSubjects = [t \in Types |-> NoChan]
  /\ fwd = [t \in Types |-> NoFwd]
  /\ subscriptions = NoEntries /\ eventListenerCleanup = NoEntries
  /\ retired = {} /\ subs = EmptyBag /\ sent = 0

\* new EventSourceError(...errArgs)
NewError ==
  /\ errObj = NoObj
  /\ errObj' = EventSourceError(errArgs)
  /\ UNCHANGED <<errArgs, maxRetries, supported, handles, lastEventSource,
                 rsValue, rsStopped, rsLast, rsLog, pipe, soFar, attempts,
                 retryAfter, pipeHandle, shareBuf, connects, termErr,
                 destroyStopped, eventSubjects, fwd,
                 subscriptions, eventListenerCleanup, retired, subs, sent>>

ErrNext == NewError

ErrSpec == ErrInit /\ [][ErrNext]_vars

\* ======================= properties =======================
\* close() has been called at least once: destroy$ is completed by it.
Closed == destroyStopped

\* a timer of the pipeline is pending: the timeout race or the backoff
TimerPending(s) == s.pipe \in {"connecting", "backoff"}

\* every subscriber that was active has received a completion
RECURSIVE SubsCompleted(_, _)
SubsCompleted(B, ts) ==
  IF ts = {} THEN B
  ELSE LET t == CHOOSE x \in ts : TRUE
       IN  SubsCompleted(SubsNotify(B, t, "completed", 0), ts \ {t})

\* C1: with maxRetries >= 1, the fatal failure whose count reaches
\* maxRetries ends the pipeline with an error and readyState 2, and from
\* then on no connection attempt is made; every earlier fatal failure
\* schedules a retry.
C1_TerminalOnFailureMaxRetries ==
  [][ /\ (maxRetries >= 1 /\ soFar' = soFar + 1) =>
           IF soFar' = maxRetries
           THEN pipe' = "errored" /\ rsValue' = CLOSED /\ attempts' = attempts
           ELSE pipe' = "backoff" /\ attempts' = attempts
      /\ pipe = "errored" =>
           pipe' = "errored" /\ attempts' = attempts /\ Len(handles') = Len(handles)
    ]_vars

C1_Witness ==
  /\ maxRetries = 2 /\ soFar = 2 /\ attempts = 2
  /\ pipe = "errored" /\ rsValue = CLOSED

\* C2: the pipeline fails terminally only after the maxRetries-th retry
\* attempt has failed, i.e. after maxRetries retries have been made.
C2_TerminalAfterMaxRetriesRetries ==
  (pipe = "errored" /\ supported) => attempts - 1 = maxRetries

\* C3: when the backoff delay has elapsed the supervisor closes the stale
\* handle and opens a fresh one for the next attempt, keeping the channels.
C3_RetryOpensFreshHandle ==
  [][ (pipe = "backoff" /\ pipe' = "connecting") =>
        /\ Len(handles') = Len(handles) + 1
        /\ handles'[pipeHandle].rs = CLOSED
        /\ pipeHandle' # pipeHandle
        /\ eventSubjects' = eventSubjects
    ]_vars

\* C4: after close(), the stream on(type) returns completes at once without
\* an event for whoever subscribes to it, and no step creates an event
\* channel, a forwarder with its raw listener or a Connection Handle.
C4_OnAfterCloseCreatesNothing ==
  [][ Closed =>
        /\ \A t \in Types :
             /\ NewSub(t, OnBody(Cur, t).eventSubjects[t]).state = "completed"
             /\ NewSub(t, OnBody(Cur, t).eventSubjects[t]).log = <<>>
             /\ eventSubjects[t].status = "none" => eventSubjects'[t].status = "none"
             /\ fwd[t].state = "none" => fwd'[t].state = "none"
        /\ Len(handles') = Len(handles)
    ]_vars

\* C5: once close() has been called, readyState is 2 in every later state.
C5_ClosedStateIsFinal == Closed => rsValue = CLOSED

\* C6: a second or later close() is a no-op: in every state reached after a
\* close(), calling close() again changes nothing.
C6_SecondCloseIsNoOp == Closed => CloseBody(Cur) = Cur

\* C7: close() completes every channel that exists when it is called: each
\* current subscriber receives a completion, never an error, and a
\* subscriber that has received its completion receives nothing afterwards.
C7_CloseCompletesChannels ==
  /\ [](LET s == CloseBody(Cur)
        IN  /\ \A t \in Types :
                 /\ s.eventSubjects[t].status = "none"
                 /\ eventSubjects[t].status = "live" =>
                      [type |-> t, status |-> "completed",
                       buf |-> eventSubjects[t].buf] \in s.retired
            /\ s.subs = SubsCompleted(subs, Types))
  /\ [][ BagCardinality(subs') = BagCardinality(subs) =>
           \A r \in BagToSet(subs) :
             r.state = "completed" => CopiesIn(r, subs') >= CopiesIn(r, subs)
       ]_vars

C7_Witness ==
  /\ Closed
  /\ \E r \in BagToSet(subs) :
       r.state = "completed" /\ r.log # <<>> /\ CopiesIn(r, subs) = 2

\* C8: when the first close() returns, every handle that was opened is
\* closed, readyState is 2, and readyState$ has delivered CLOSED as its last
\* value and has completed.
C8_FirstCloseFinalState ==
  [][ (~Closed /\ Closed') =>
        /\ \A h \in DOMAIN handles' : handles'[h].rs = CLOSED
        /\ rsValue' = CLOSED
        /\ rsLast' = CLOSED
        /\ rsStopped'
    ]_vars

C8_Witness ==
  /\ Closed /\ pipe = "completed"
  /\ shareBuf # 0 /\ handles[shareBuf].rs = CLOSED
  /\ rsStopped /\ rsLast = CLOSED /\ rsValue = CLOSED

\* C9: close() cancels the pending backoff timer and the connection-timeout
\* race: in every state, once a close() call made there has returned, no
\* timer of the pipeline is pending.
C9_CloseCancelsTimers == ~TimerPending(CloseBody(Cur))

\* C10: the connection stream is shared: whatever the number of channels,
\* forwarders and consumer subscriptions, the connection factory has run at
\* most once and no handle was opened beyond the one of that execution.
C10_SharedConnection == connects <= 1 /\ Len(handles) <= connects

C10_Witness ==
  /\ \A t \in Types : fwd[t].state = "active" /\ fwd[t].listen = 1
  /\ BagCardinality(subs) >= 2
  /\ connects = 1 /\ Len(handles) = 1

\* C11: in every reachable state at most one EventSource constructed by the
\* object is not CLOSED.
C11_AtMostOneOpenHandle ==
  Cardinality({h \in DOMAIN handles : handles[h].rs # CLOSED}) <= 1

C11_Witness ==
  /\ \A t \in Types : fwd[t].state = "active" /\ fwd[t].listen = 1
  /\ Cardinality({h \in DOMAIN handles : handles[h].rs # CLOSED}) = 1

\* C12: until the first on() call no EventSource exists and readyState is
\* 2; where EventSource is available the first on() call constructs the
\* handle and readyState takes its initial value CONNECTING.
C12_LazyConnection ==
  /\ [](connects = 0 => (handles = <<>> /\ lastEventSource = 0 /\ rsValue = CLOSED))
  /\ [][ (connects = 0 /\ connects' = 1 /\ supported) =>
           /\ Len(handles') = 1
           /\ handles'[1].rs = CONNECTING
           /\ lastEventSource' = 1
           /\ rsValue' = CONNECTING
       ]_vars

C12_Witness ==
  /\ connects = 1 /\ Len(handles) = 1 /\ handles[1].rs = CONNECTING
  /\ rsValue = CONNECTING /\ rsLog = <<CLOSED, CONNECTING>>

\* C13: when the handle opens on the first attempt, an observer of
\* readyState$ subscribed since construction has seen exactly 2, 0, 1 for
\* as long as the connection stays open, and no channel has failed.
C13_OpenSequenceIs201 ==
  (/\ ~Closed /\ pipe = "open" /\ soFar = 0 /\ attempts = 1
   /\ handles[pipeHandle].rs = OPEN)
  => /\ rsLog = <<CLOSED, CONNECTING, OPEN>>
     /\ \A t \in Types : eventSubjects[t].status # "errored"

\* C14: in every state, also after close(), an observer that subscribes to
\* readyState$ is handed the current readyState first.
C14_NewObserverGetsCurrentState == RsOnSubscribe(Cur) = <<rsValue>>

\* every subscriber that was active has received an error
RECURSIVE SubsErrored(_, _)
SubsErrored(B, ts) ==
  IF ts = {} THEN B
  ELSE LET t == CHOOSE x \in ts : TRUE
       IN  SubsErrored(SubsNotify(B, t, "errored", 0), ts \ {t})

\* C15: an event forwarded on the channel of a type reaches every current
\* subscriber of that channel and becomes the one buffered event; a
\* subscriber joining a live channel is handed exactly that event, or
\* nothing when no event has been forwarded, without any step of the handle.
\* (The event that exhausts the retries is forwarded before the channels fail.)
C15_MulticastReplayOne ==
  [][ /\ sent' # sent =>
           /\ sent' = sent + 1
           /\ \E t \in Types :
                /\ eventSubjects'[t].buf = sent'
                /\ \/ subs' = SubsNotify(subs, t, "next", sent')
                   \/ /\ pipe' = "errored"
                      /\ subs' = SubsErrored(SubsNotify(subs, t, "next", sent'), Types)
      /\ \A t \in Types :
           (eventSubjects'[t].buf # eventSubjects[t].buf /\ eventSubjects'[t].status = "live") =>
             eventSubjects'[t].buf = sent' /\ sent' # sent
      /\ (BagCardinality(subs') > BagCardinality(subs) /\ sent' = sent) =>
           \/ \E t \in Types :
                /\ eventSubjects[t].status # "none"
                /\ subs' = subs (+) SetToBag({[type |-> t,
                      state |-> IF eventSubjects[t].status = "live" THEN "active"
                                ELSE eventSubjects[t].status,
                      log |-> IF eventSubjects[t].buf = 0 THEN <<>>
                              ELSE <<eventSubjects[t].buf>>]})
           \/ \E ch \in retired :
                subs' = subs (+) SetToBag({[type |-> ch.type, state |-> ch.status,
                      log |-> IF ch.buf = 0 THEN <<>> ELSE <<ch.buf>>]})
    ]_vars

C15_Witness ==
  /\ sent = 2
  /\ eventSubjects["message"] = [status |-> "live", buf |-> 2]
  /\ subs = SetToBag({[type |-> "message", state |-> "active", log |-> <<1, 2>>]})
            (+) SetToBag({[type |-> "message", state |-> "active", log |-> <<2>>]})

\* C16: for every type at most one channel with its forwarder is created
\* over the lifetime of the object: no step creates a channel for a type
\* that had one before.
C16_OneChannelPerType ==
  [][ \A t \in Types :
        (eventSubjects[t].status = "none" /\ eventSubjects'[t].status # "none") =>
          ~ \E ch \in retired : ch.type = t
    ]_vars

\* the events a subscriber has received are distinct and in order
NoDuplicates(log) == \A i, j \in DOMAIN log : i < j => log[i] < log[j]

\* C17: the stream of every type is continuous across reconnects: a step
\* in which the pipeline schedules or makes a retry ends no channel and no
\* subscription; whenever the handle is OPEN the forwarder of every live
\* channel listens on it, so that its events reach the channel; and no
\* subscriber receives an event twice.
C17_ContinuousAcrossReconnects ==
  /\ [](/\ \A t \in Types, h \in DOMAIN handles :
             (handles[h].rs = OPEN /\ eventSubjects[t].status = "live") =>
               Listens(Cur, t, h, t)
        /\ \A r \in BagToSet(subs) : NoDuplicates(r.log))
  /\ [][ ((pipe # "backoff" /\ pipe' = "backoff") \/ (pipe = "backoff" /\ pipe' = "connecting")) =>
           /\ \A t \in Types : eventSubjects'[t].status = eventSubjects[t].status
           /\ \A r \in BagToSet(subs) : r.state = "active" =>
                \E q \in BagToSet(subs') : q.type = r.type /\ q.state = "active"
       ]_vars

\* C18: once the handle has reached OPEN, no step fails the attempt,
\* starts a retry or ends the pipeline with an error: from the open state
\* the pipeline only stays open or is completed by close().
C18_ErrorAfterOpenIsNotFatal ==
  [][ pipe = "open" =>
        /\ pipe' \in {"open", "completed"}
        /\ soFar' = soFar
        /\ attempts' = attempts
    ]_vars

\* the pipeline after the supervised handle h dispatches 'error' while it
\* is CONNECTING
AfterErrorWhileConnecting(h, rnd) ==
  Dispatch([Cur EXCEPT !.handles[h].rs = CONNECTING], h, "error", rnd)

\* C19: an error dispatched while the handle is still CONNECTING fails the
\* attempt (a retry is scheduled or the pipeline ends with an error); when
\* retries remain readyState is 0 then, and it is 0 in every state of the
\* backoff wait.
C19_ErrorWhileConnectingFailsAttempt ==
  /\ (pipe = "connecting" /\ handles[pipeHandle].rs = CONNECTING) =>
       \A rnd \in 0..(RandSteps - 1) :
         LET s == AfterErrorWhileConnecting(pipeHandle, rnd)
         IN  IF soFar + 1 < maxRetries
             THEN s.pipe = "backoff" /\ s.soFar = soFar + 1 /\ s.rsValue = CONNECTING
             ELSE s.pipe = "errored"
  /\ pipe = "backoff" => rsValue = CONNECTING

\* C20: when timer(connectionTimeout) expires in an attempt that has seen
\* neither 'open' nor a fatal error, the attempt fails with "Connection
\* timeout" and the retry policy treats it as it treats an error while
\* CONNECTING: a retry with the same count and delay when retries remain,
\* the terminal failure otherwise.
C20_TimeoutFailsAttempt ==
  pipe = "connecting" =>
    \A rnd \in 0..(RandSteps - 1) :
      LET s == SupOnTimeout(Cur, rnd)
          e == SupOnError([Cur EXCEPT !.handles[pipeHandle].rs = CONNECTING], rnd)
      IN  /\ s.pipe = e.pipe /\ s.soFar = e.soFar
          /\ s.retryAfter = e.retryAfter /\ s.attempts = e.attempts
          /\ IF soFar + 1 < maxRetries
             THEN s.pipe = "backoff" /\ s.soFar = soFar + 1
             ELSE /\ s.pipe = "errored"
                  /\ s.termErr.msg = "Connection timeout"
                  /\ s.rsValue = CLOSED

C20_Witness ==
  /\ maxRetries = 2 /\ soFar = 2 /\ attempts = 2
  /\ pipe = "errored" /\ termErr.msg = "Connection timeout"

\* the pipeline after the supervised handle h dispatches 'open'
AfterOpen(h) == Dispatch([Cur EXCEPT !.handles[h].rs = OPEN], h, "open", 0)

\* C21: in an attempt whose handle dispatches 'open' before
\* timer(connectionTimeout) fires, the handle is emitted downstream,
\* readyState becomes 1 and the timer is cancelled: while the attempt stays
\* open no timer is pending and no timeout error is raised.
C21_OpenWinsRace ==
  /\ []((pipe = "connecting" /\ handles[pipeHandle].rs = CONNECTING) =>
          LET s == AfterOpen(pipeHandle)
          IN  /\ s.pipe = "open" /\ ~TimerPending(s)
              /\ s.shareBuf = pipeHandle
              /\ s.rsValue = OPEN)
  /\ [][ pipe = "open" =>
           termErr'.msg # "Connection timeout"
       ]_vars

C21_Witness ==
  /\ pipe = "open" /\ shareBuf = pipeHandle /\ handles[pipeHandle].rs = OPEN
  /\ rsValue = OPEN /\ sent = MaxMsgs

\* C22: the step in which the pipeline fails terminally fails every live
\* channel and every active subscription; from then on every channel that
\* exists has failed, a subscriber of the stream on(type) returns for any
\* type, requested before or not, is given the error, readyState is 2 and
\* every handle is closed.
C22_TerminalErrorReachesAll ==
  /\ [](pipe = "errored" =>
          /\ \A t \in Types :
               /\ eventSubjects[t].status \in {"none", "errored"}
               /\ NewSub(t, OnBody(Cur, t).eventSubjects[t]).state = "errored"
          /\ rsValue = CLOSED
          /\ \A h \in DOMAIN handles : handles[h].rs = CLOSED)
  /\ [][ (pipe # "errored" /\ pipe' = "errored") =>
           /\ \A t \in Types : eventSubjects[t].status = "live" =>
                                 eventSubjects'[t].status = "errored"
           /\ \A r \in BagToSet(subs') : r.state # "active"
           /\ \/ subs' = SubsErrored(subs, Types)
              \/ \E t \in Types :
                   subs' = SubsErrored(SubsNotify(subs, t, "next", sent'), Types)
       ]_vars

C22_Witness ==
  /\ pipe = "errored" /\ supported /\ maxRetries = 2
  /\ \A t \in Types : eventSubjects[t].status = "errored"
  /\ \E r \in BagToSet(subs) : r.type = "message" /\ r.state = "errored" /\ r.log # <<>>
  /\ \E r \in BagToSet(subs) : r.type = "error" /\ r.state = "errored"

\* C23: with maxRetries = 0, an error while the first handle is CONNECTING
\* ends the pipeline with an error that carries attempt 0, no retry is
\* made, and readyState becomes 2.
C23_NoRetriesFailsWithAttemptZero ==
  (/\ maxRetries = 0 /\ pipe = "connecting" /\ attempts = 1
   /\ handles[pipeHandle].rs = CONNECTING) =>
    LET s == AfterErrorWhileConnecting(pipeHandle, 0)
    IN  /\ s.pipe = "errored"
        /\ s.attempts = 1
        /\ s.rsValue = CLOSED
        /\ s.termErr.attempt = 0

\* C24: the error that ends the pipeline when the retries are exhausted
\* carries the number of failed attempts (counted from 0 or from 1), never
\* the default -1.
C24_TerminalErrorCarriesAttempt ==
  (pipe = "errored" /\ supported) =>
    termErr.attempt \in {attempts - 1, attempts}

Unsupported == "EventSource is not supported in this environment"

\* C25: without window.EventSource the first on() fails the pipeline with
\* the Unsupported error, once: no handle is ever constructed, no attempt,
\* retry or timer exists, readyState stays 2, and the channel of the on()
\* call that connected fails with its subscribers-to-be.
C25_UnsupportedFailsOnce ==
  /\ [](~supported =>
          /\ handles = <<>> /\ lastEventSource = 0
          /\ attempts = 0 /\ soFar = 0 /\ retryAfter = 0
          /\ ~TimerPending(Cur)
          /\ rsValue = CLOSED
          /\ connects <= 1
          /\ connects = 1 => (pipe = "errored" /\ termErr.msg = Unsupported))
  /\ [][ (~supported /\ connects = 0 /\ connects' = 1) =>
           \E t \in Types :
             /\ eventSubjects[t].status = "none"
             /\ eventSubjects'[t].status = "errored"
             /\ NewSub(t, eventSubjects'[t]).state = "errored"
       ]_vars

C25_Witness ==
  /\ ~supported /\ connects = 1 /\ pipe = "errored"
  /\ \A t \in Types : eventSubjects[t].status = "errored"
  /\ \E r \in BagToSet(subs) : r.state = "errored" /\ r.log = <<>>

\* the consumer subscriptions to the channels of type t
SubsOf(B, t) == [r \in {x \in BagToSet(B) : x.type = t} |-> B[r]]

\* C26: in every state in which the raw listener of a type can fail, its
\* failure ends the inner subscription of that forwarder only: the
\* forwarder stays subscribed to the connection, the channels, forwarders
\* and subscribers of the other types are untouched and still receive
\* their events, and pipeline, handles and readyState are unchanged.
C26_ListenerFailureIsLocal ==
  [](
  \A t \in Types :
    (FwdActive(Cur, t) /\ fwd[t].listen # 0) =>
      LET s == FwdInnerError(Cur, t)
      IN  /\ s.fwd[t].state = "active" /\ s.fwd[t].listen = 0
          /\ \A u \in Types \ {t} :
               /\ s.eventSubjects[u] = eventSubjects[u]
               /\ s.fwd[u] = fwd[u]
               /\ SubsOf(s.subs, u) = SubsOf(subs, u)
               /\ \A h \in DOMAIN handles :
                    LET a == Dispatch(s, h, u, 0)
                        b == Dispatch(Cur, h, u, 0)
                    IN  /\ a.eventSubjects[u] = b.eventSubjects[u]
                        /\ SubsOf(a.subs, u) = SubsOf(b.subs, u)
          /\ s.pipe = pipe /\ s.soFar = soFar /\ s.attempts = attempts
          /\ s.retryAfter = retryAfter /\ s.shareBuf = shareBuf
          /\ s.handles = handles
          /\ s.rsValue = rsValue /\ s.rsLog = rsLog
  )

C26_Witness ==
  /\ pipe = "open" /\ handles[pipeHandle].rs = OPEN
  /\ \A t \in Types : FwdActive(Cur, t) /\ fwd[t].listen = pipeHandle
  /\ \A t \in Types : \E r \in BagToSet(subs) : r.type = t /\ r.state = "active"
  /\ sent < MaxMsgs

\* C27: the delay waited before a retry lies between 0 and
\* min(initialDelay * 2^attempt, maxDelay), attempt being the count of the
\* failure that is retried: in every backoff wait of a run, and for every
\* attempt number and random draw the callback can be given.
C27_BackoffDelayBounded ==
  [](
  pipe = "backoff" =>
    /\ 0 <= retryAfter
    /\ retryAfter <= initialDelay * Pow2(soFar)
    /\ retryAfter <= maxDelay
    /\ \A a \in 0..(MaxRetriesOpt + 1), rnd \in 0..(RandSteps - 1) :
         LET d == Jitter(rnd, BaseDelay(a))
         IN  0 <= d /\ d <= initialDelay * Pow2(a) /\ d <= maxDelay
  )

C27_Witness ==
  /\ pipe = "backoff" /\ soFar = 1 /\ retryAfter > 0

\* C28: a consumer unsubscribing, the last one included, changes nothing
\* but the set of subscriptions: channels and their buffers, forwarders and
\* their listeners, handles, pipeline and readyState are as before, so a
\* later subscriber of a type is handed the buffered event as before.
C28_UnsubscribeLeavesObjectUnchanged ==
  [][ BagCardinality(subs') < BagCardinality(subs) =>
        /\ \E r \in BagToSet(subs) : subs' = subs (-) SetToBag({r})
        /\ UNCHANGED <<eventSubjects, fwd, subscriptions, eventListenerCleanup,
                       handles, lastEventSource, pipe, pipeHandle, shareBuf,
                       connects, soFar, attempts, retryAfter, termErr,
                       rsValue, rsStopped, rsLast, rsLog, destroyStopped,
                       retired, sent>>
        /\ \A t \in Types : eventSubjects[t].status = "live" =>
             NewSub(t, eventSubjects'[t]).log =
               IF eventSubjects[t].buf = 0 THEN <<>> ELSE <<eventSubjects[t].buf>>
    ]_vars

C28_Witness ==
  /\ subs = EmptyBag /\ ~Closed
  /\ pipe = "open" /\ handles[pipeHandle].rs = OPEN
  /\ fwd["message"].state = "active" /\ fwd["message"].listen = pipeHandle
  /\ eventSubjects["message"] = [status |-> "live", buf |-> 2]

\* C29: a subscriber that subscribes after close() to a stream on(type)
\* returned before close() receives the completion and no event, whatever
\* was delivered on the channel before.
C29_LateSubscriberGetsOnlyCompletion ==
  \A ch \in retired :
    ch.status = "completed" =>
      /\ NewSub(ch.type, ch).state = "completed"
      /\ NewSub(ch.type, ch).log = <<>>

\* the pipeline after the supervised handle h dispatches 'error' with
\* readyState r
AfterError(h, r, rnd) == Dispatch([Cur EXCEPT !.handles[h].rs = r], h, "error", rnd)

\* C30: while the supervisor listens to a handle that is not closed, an
\* 'error' from it publishes the readyState the handle reports as the next
\* value of readyState$, and when the event has been handled readyState is
\* the handle's readyState (2 for an error with the handle CLOSED); an
\* 'open' makes it 1.
C30_ErrorPublishesHandleState ==
  [](
  (SupListening(Cur) /\ handles[pipeHandle].rs # CLOSED) =>
    /\ \A r \in {CONNECTING, CLOSED}, rnd \in 0..(RandSteps - 1) :
         LET s == AfterError(pipeHandle, r, rnd)
         IN  /\ (~rsStopped /\ Len(rsLog) < MaxLog) => s.rsLog[Len(rsLog) + 1] = r
             /\ s.rsValue = s.handles[pipeHandle].rs
             /\ r = CLOSED => s.rsValue = CLOSED
    /\ handles[pipeHandle].rs = CONNECTING => AfterOpen(pipeHandle).rsValue = OPEN
  )

C30_Witness ==
  /\ SupListening(Cur) /\ ~Closed
  /\ handles[pipeHandle].rs = CLOSED /\ rsValue = CLOSED
  /\ rsLog = <<CLOSED, CONNECTING, CLOSED>>

\* the text the constructor hands to super()
ErrText(args) ==
  "EventSource Error: " \o args[1] \o
    (IF Len(args) = 2 /\ args[2] > -1 THEN " - Attempt: " \o ToString(args[2]) ELSE "")

\* C31: new EventSourceError(message, attempt) has attempt -1 when none is
\* given, name 'EventSourceError', and as message 'EventSource Error: ',
\* the given message and, exactly when attempt > -1, ' - Attempt: ' and
\* the attempt.
C31_ErrorMessageFormat ==
  errObj # NoObj =>
    /\ errObj.attempt = (IF Len(errArgs) = 2 THEN errArgs[2] ELSE -1)
    /\ errObj.name = "EventSourceError"
    /\ errObj.message = ErrText(errArgs)

\* C32: on the first close() the channels are completed after the handle
\* has been closed and CLOSED has been published: at the moment a channel
\* completes, readyState is 2 and the handle is closed.
C32_ChannelsCompleteAfterStateClosed ==
  ~Closed =>
    LET s == CloseCleanups(Cur)
    IN  \A t \in Types :
          (eventSubjects[t].status = "live" /\ s.eventSubjects[t].status = "completed") =>
            /\ s.rsValue = CLOSED
            /\ s.lastEventSource # 0 => s.handles[s.lastEventSource].rs = CLOSED

\* C33: only the supervisor writes readyState.  A step in which the
\* supervisor emits the handle publishes OPEN once, and an on() call that
\* does not start the pipeline leaves readyState and readyState$ as they
\* are, although the new forwarder is handed the current handle.
C33_OnlySupervisorWritesState ==
  [][ /\ (pipe = "connecting" /\ pipe' = "open" /\ Len(rsLog) + 1 < MaxLog) =>
           rsLog' = Append(rsLog, OPEN)
      /\ (connects' = connects /\ destroyStopped' = destroyStopped /\
             \E t \in Types : eventSubjects[t].status = "none" /\
                               eventSubjects'[t].status # "none") =>
           (rsValue' = rsValue /\ rsLast' = rsLast /\ rsLog' = rsLog)
    ]_vars

C35_ListenersFollowTheHandle ==
  /\ \A t \in Types : fwd[t].listen # 0 => fwd[t].listen = shareBuf
  /\ Closed => (~SupListening(Cur) /\ \A t \in Types : fwd[t].listen = 0)

C37_RetryCountIsCumulative ==
  /\ [][soFar' >= soFar]_vars
  /\ [][(soFar' = soFar + 1 /\ soFar' >= maxRetries) => pipe' = "errored"]_vars
  /\ []((PipeActive(Cur) /\ maxRetries > 0) => soFar < maxRetries)

C37_Witness ==
  /\ pipe = "errored" /\ maxRetries = 2 /\ soFar = 2
  /\ rsLog = <<CLOSED, CONNECTING, CLOSED, CONNECTING>>
  /\ shareBuf # 0

\* C38: the connection timeout fails an attempt only for a handle that has
\* not reached OPEN: whenever the timeout timer is running, and so can
\* fire, the handle of the attempt is not OPEN.
C38_TimeoutOnlyBeforeOpen ==
  pipe = "connecting" => handles[pipeHandle].rs # OPEN

\* C39: in every reachable state, after close() too, the readyState getter
\* returns the value delivered last on readyState$.
C39_GetterAgreesWithStream ==
  rsValue = rsLast

\* C40: when timers fire, a pipeline that is connecting or waiting in a
\* backoff eventually emits the opened handle, fails for good, or is torn
\* down by close(); it does not stay connecting or in backoff for ever.
C40_PipelineLeavesConnecting ==
  TimerPending(Cur) ~> (pipe \in {"open", "errored", "completed"})

C40_Witness ==
  /\ pipe = "errored" /\ maxRetries = 2 /\ attempts = 2
  /\ shareBuf = 0 /\ ~Closed
  /\ termErr.msg = "Connection timeout"

====
